---- MODULE Spec2Model ----
(***************************************************************************)
(* IntelliTask frontend: the session bootstrap of AuthProvider             *)
(* (AuthContext.tsx) and the optimistic Kanban board of DeveloperDashboard *)
(* (DeveloperDashboard.tsx), modelled as state machines.                   *)
(*                                                                         *)
(* JavaScript runs each synchronous segment of an async function (the code *)
(* between two awaits) without interruption, and React applies the state   *)
(* setters of one segment in a single render.  So one action of this model *)
(* is one such segment; an await is the gap between two actions.           *)
(***************************************************************************)
EXTENDS Integers, Sequences, FiniteSets, TLC

\* ---------------------------------------------------------------- bounds
MaxLogins == 2
MaxSignOuts == 1
MaxLogOut == 1
MaxOps == 2
MaxEdits == 1
MaxRoleChanges == 2
MaxReviewOps == 3

\* ------------------------------------------------------------- constants
NULL == "null"
Users == {"u1", "u2"}
Roles == {"admin", "developer"}
TASK_STATUSES == <<"To-Do", "In Progress", "In Review", "Done">>
Statuses == {TASK_STATUSES[k] : k \in 1..Len(TASK_STATUSES)}
TaskIds == {"t1", "t2"}

VARIABLES
    user,           \* useState<User | null>(null)
    idToken,        \* useState<string | null>(null)
    role,           \* useState<UserRole>(null)
    loading,        \* useState(true)
    authUser,       \* auth.currentUser of the identity provider
    evq,            \* auth-state notifications not yet delivered to the listener
    h,              \* the invocations of the onAuthStateChanged callback for logged-in events
    nLogins,        \* logged-in events delivered so far
    nEvents,        \* auth-state events delivered so far
    nSignOuts,      \* sign-outs made outside this page (another tab, revoked session)
    logOutCalls,    \* explicit logOut() calls whose signOut(auth) is in flight
    lastLogOut,     \* how the most recent explicit logOut() call settled
    signIn,         \* the most recent googleSignIn() call: where it is, how it ended
    providerMounted,\* AuthProvider is mounted
    subscribed,     \* the onAuthStateChanged listener is registered
    tasks,          \* useState<Task[]>([]) of DeveloperDashboard
    loadingTasks,   \* DeveloperDashboard's loading flag
    error,          \* DeveloperDashboard's error message, or NULL
    mounted,        \* the mount effect of DeveloperDashboard has run
    gets,           \* the GET /tasks/my requests in flight, oldest first
    puts,           \* the PUT /tasks/{id}/status requests in flight, oldest first
    settled,        \* the request that settled last, and how
    backend,        \* the task list the backend holds for this developer
    nOps,           \* drags and refreshes made by the user so far
    nEdits,         \* changes made by other actors so far
    lastDrop,       \* the last DragEndEvent handled, and what handleDragEnd made of it
    okPuts,         \* ids of the tasks with a status update that succeeded
    failedPuts,     \* ids of the tasks with a status update that failed
    api,            \* a call of fetchFromApi: its inputs, where it is, its result
    umUsers,        \* UserManagementPage: users
    umLoading,      \* UserManagementPage: loading
    umError,        \* UserManagementPage: error
    umSuccess,      \* UserManagementPage: success
    umFetch,        \* fetchUsers(): "none", "inFlight" or "done"
    umCalls,        \* role changes awaiting the backend's answer
    umTimers,       \* pending timeouts that clear the success message
    umSettled,      \* the role change that settled last
    umLast,         \* the last invocation of handleRoleChange
    umOps,          \* invocations of handleRoleChange so far
    rvTasks,        \* AdminReviewPage: tasks
    rvLoading,      \* AdminReviewPage: loading
    rvError,        \* AdminReviewPage: error
    rvMounted,      \* AdminReviewPage is mounted
    rvBackend,      \* the tasks as the backend holds them
    rvGets,         \* fetchData() calls in progress
    rvCalls,        \* approve and delete calls awaiting the backend's answer
    rvDone,         \* the approvals and deletions the backend has carried out
    rvSettled,      \* the approve or delete call that settled last
    rvLast,         \* the last invocation of handleApprove or handleDelete
    rvOps           \* invocations of the handlers and reloads so far

authVars == <<user, idToken, role, loading, authUser, evq, h, nLogins, nEvents,
              nSignOuts, logOutCalls, lastLogOut, signIn, providerMounted, subscribed>>

boardVars == <<tasks, loadingTasks, error, mounted, gets, puts, settled, backend,
               nOps, nEdits, lastDrop, okPuts, failedPuts>>

vars == <<user, idToken, role, loading, authUser, evq, h, nLogins, nEvents,
          nSignOuts, logOutCalls, lastLogOut, signIn, providerMounted, subscribed,
          tasks, loadingTasks, error, mounted, gets, puts, settled, backend,
          nOps, nEdits, lastDrop, okPuts, failedPuts,
          api,
          umUsers, umLoading, umError, umSuccess, umFetch, umCalls, umTimers,
          umSettled, umLast, umOps,
          rvTasks, rvLoading, rvError, rvMounted, rvBackend, rvGets, rvCalls, rvDone,
          rvSettled, rvLast, rvOps>>

rvVars == <<rvTasks, rvLoading, rvError, rvMounted, rvBackend, rvGets, rvCalls, rvDone,
            rvSettled, rvLast, rvOps>>

umVars == <<umUsers, umLoading, umError, umSuccess, umFetch, umCalls, umTimers,
            umSettled, umLast, umOps>>

pageVars == <<api, umVars, rvVars>>

\* The JWT that currentUser.getIdToken() yields for a user.
Token(u) == "jwt-" \o u

Handlers == 1..MaxLogins

InProgress == {"getIdToken", "roleLookup", "signOut"}

IdleHandler == [cu |-> NULL, pc |-> "notStarted", sent |-> FALSE]

\* The four phases of the session, read off the provider's state.
Phase ==
    IF loading
    THEN (IF nEvents = 0 THEN "initializing" ELSE "authenticating")
    ELSE (IF user = NULL THEN "unauthenticated" ELSE "ready")

\* ------------------------------------------------------------------ Init
AuthInit ==
    /\ user = NULL
    /\ idToken = NULL
    /\ role = NULL
    /\ loading = TRUE
    /\ authUser \in Users \cup {NULL}
    /\ evq = <<authUser>>
    /\ h = [i \in Handlers |-> IdleHandler]
    /\ nLogins = 0
    /\ nEvents = 0
    /\ nSignOuts = 0
    /\ logOutCalls = 0
    /\ lastLogOut = "none"
    /\ signIn = "idle"
    /\ providerMounted = TRUE
    /\ subscribed = TRUE

\* ------------------------------------------------- the identity provider
\* The provider notifies the listener when its current user changes.
Notify(u) == IF u = authUser THEN evq ELSE Append(evq, u)

LoginsQueued == Cardinality({k \in 1..Len(evq) : evq[k] # NULL})

\* A sign-in completes at the provider outside googleSignIn (another tab).
ProviderSignIn(u) ==
    /\ u # authUser
    /\ nLogins + LoginsQueued < MaxLogins
    /\ authUser' = u
    /\ evq' = Append(evq, u)
    /\ UNCHANGED <<user, idToken, role, loading, h, nLogins, nEvents, nSignOuts,
                   logOutCalls, lastLogOut>>
    /\ UNCHANGED signIn
    /\ UNCHANGED <<providerMounted, subscribed>>
    /\ UNCHANGED boardVars
    /\ UNCHANGED pageVars

\* The provider's user is signed out from outside this page.
ProviderSignOut ==
    /\ authUser # NULL
    /\ nSignOuts < MaxSignOuts
    /\ nSignOuts' = nSignOuts + 1
    /\ authUser' = NULL
    /\ evq' = Append(evq, NULL)
    /\ UNCHANGED <<user, idToken, role, loading, h, nLogins, nEvents,
                   logOutCalls, lastLogOut>>
    /\ UNCHANGED signIn
    /\ UNCHANGED <<providerMounted, subscribed>>
    /\ UNCHANGED boardVars
    /\ UNCHANGED pageVars

\* ------------------------------------------------------------ AuthProvider
\* A state setter of AuthProvider (setUser, setIdToken, setRole, setLoading):
\* the state takes the new value; once the provider is unmounted its state is
\* gone and a call made by a continuation still running has no effect.
SetState(cur, new) == IF providerMounted THEN new ELSE cur

\* setUser(null); setIdToken(null); setRole(null)
ClearAll ==
    /\ user' = SetState(user, NULL)
    /\ idToken' = SetState(idToken, NULL)
    /\ role' = SetState(role, NULL)

\* LoggedInStart without its setLoading(true).
LoggedInStart_NoLoading(cu) ==
    /\ user' = cu
    /\ UNCHANGED <<idToken, role, loading>>

\* The callback's first segment for a logged-in event, up to `await getIdToken()`.
LoggedInStart(cu) ==
    /\ loading' = TRUE
    /\ user' = cu
    /\ UNCHANGED <<idToken, role>>

\* A logged-out branch that forgets setRole(null).
LoggedOutRun_KeepsRole ==
    /\ user' = NULL
    /\ idToken' = NULL
    /\ role' = role
    /\ loading' = FALSE

\* The callback's whole run for a logged-out event (it never awaits).
LoggedOutRun ==
    /\ ClearAll
    /\ loading' = FALSE

\* onAuthStateChanged delivers the next notification to the callback, as long
\* as the listener is registered.
AuthStateChanged ==
    /\ subscribed
    /\ evq # <<>>
    /\ evq' = Tail(evq)
    /\ nEvents' = nEvents + 1
    /\ LET cu == Head(evq) IN
       IF cu # NULL
       THEN /\ LoggedInStart(cu)
            /\ nLogins' = nLogins + 1
            /\ h' = [h EXCEPT ![nLogins + 1] =
                        [cu |-> cu, pc |-> "getIdToken", sent |-> FALSE]]
       ELSE /\ LoggedOutRun
            /\ UNCHANGED <<nLogins, h>>
    /\ UNCHANGED <<authUser, nSignOuts, logOutCalls, lastLogOut>>
    /\ UNCHANGED signIn
    /\ UNCHANGED <<providerMounted, subscribed>>
    /\ UNCHANGED boardVars
    /\ UNCHANGED pageVars

\* A fetchFromApi that hands out the credential in phase ready only.
HasCurrentUser_PhaseReady == Phase = "ready"

\* fetchFromApi: `const user = auth.currentUser; if (!user) throw new Error(...)`;
\* otherwise the request goes out with the bearer token of that user.
HasCurrentUser == authUser # NULL

\* `await currentUser.getIdToken()` resolves: setIdToken(token), then the role
\* lookup starts.  fetchFromApi sends the request only if auth.currentUser is set.
GetIdTokenResolved(i) ==
    /\ h[i].pc = "getIdToken"
    /\ idToken' = SetState(idToken, Token(h[i].cu))
    /\ h' = [h EXCEPT ![i].pc = "roleLookup", ![i].sent = HasCurrentUser]
    /\ UNCHANGED <<user, role, loading, authUser, evq, nLogins, nEvents, nSignOuts,
                   logOutCalls, lastLogOut>>
    /\ UNCHANGED signIn
    /\ UNCHANGED <<providerMounted, subscribed>>
    /\ UNCHANGED boardVars
    /\ UNCHANGED pageVars

\* `await currentUser.getIdToken()` rejects: the callback's promise rejects and
\* nothing after the await runs.
GetIdTokenRejected(i) ==
    /\ h[i].pc = "getIdToken"
    /\ h' = [h EXCEPT ![i].pc = "rejected"]
    /\ UNCHANGED <<user, idToken, role, loading, authUser, evq, nLogins, nEvents,
                   nSignOuts, logOutCalls, lastLogOut>>
    /\ UNCHANGED signIn
    /\ UNCHANGED <<providerMounted, subscribed>>
    /\ UNCHANGED boardVars
    /\ UNCHANGED pageVars

\* GET /users/me answers: setRole(userInfo.role); setLoading(false).
RoleLookupOk(i, r) ==
    /\ h[i].pc = "roleLookup"
    /\ h[i].sent
    /\ role' = SetState(role, r)
    /\ loading' = SetState(loading, FALSE)
    /\ h' = [h EXCEPT ![i].pc = "done"]
    /\ UNCHANGED <<user, idToken, authUser, evq, nLogins, nEvents, nSignOuts,
                   logOutCalls, lastLogOut>>
    /\ UNCHANGED signIn
    /\ UNCHANGED <<providerMounted, subscribed>>
    /\ UNCHANGED boardVars
    /\ UNCHANGED pageVars

\* GET /users/me fails: the catch block calls logOut(), which awaits signOut(auth).
RoleLookupFailed(i) ==
    /\ h[i].pc = "roleLookup"
    /\ h' = [h EXCEPT ![i].pc = "signOut"]
    /\ UNCHANGED <<user, idToken, role, loading, authUser, evq, nLogins, nEvents,
                   nSignOuts, logOutCalls, lastLogOut>>
    /\ UNCHANGED signIn
    /\ UNCHANGED <<providerMounted, subscribed>>
    /\ UNCHANGED boardVars
    /\ UNCHANGED pageVars

\* logOut() after signOut(auth) resolved: the provider has no user any more and
\* the three setters in the try block run.
LogOutResolved ==
    /\ authUser' = NULL
    /\ evq' = Notify(NULL)
    /\ ClearAll

\* logOut() after signOut(auth) rejected: the catch block only logs.
LogOutRejected ==
    /\ UNCHANGED <<authUser, evq, user, idToken, role>>

\* The forced logOut() of the callback settles, then setLoading(false).
ForcedLogOutOk(i) ==
    /\ h[i].pc = "signOut"
    /\ LogOutResolved
    /\ loading' = SetState(loading, FALSE)
    /\ h' = [h EXCEPT ![i].pc = "done"]
    /\ UNCHANGED <<nLogins, nEvents, nSignOuts, logOutCalls, lastLogOut>>
    /\ UNCHANGED signIn
    /\ UNCHANGED <<providerMounted, subscribed>>
    /\ UNCHANGED boardVars
    /\ UNCHANGED pageVars

ForcedLogOutFailed(i) ==
    /\ h[i].pc = "signOut"
    /\ LogOutRejected
    /\ loading' = SetState(loading, FALSE)
    /\ h' = [h EXCEPT ![i].pc = "done"]
    /\ UNCHANGED <<nLogins, nEvents, nSignOuts, logOutCalls, lastLogOut>>
    /\ UNCHANGED signIn
    /\ UNCHANGED <<providerMounted, subscribed>>
    /\ UNCHANGED boardVars
    /\ UNCHANGED pageVars

\* The Logout button (rendered only when !loading and a user is present).
LogOutCall ==
    /\ ~loading
    /\ user # NULL
    /\ logOutCalls < MaxLogOut
    /\ logOutCalls' = logOutCalls + 1
    /\ lastLogOut' = "pending"
    /\ UNCHANGED <<user, idToken, role, loading, authUser, evq, h, nLogins, nEvents,
                   nSignOuts>>
    /\ UNCHANGED signIn
    /\ UNCHANGED <<providerMounted, subscribed>>
    /\ UNCHANGED boardVars
    /\ UNCHANGED pageVars

LogOutOk ==
    /\ logOutCalls > 0
    /\ logOutCalls' = logOutCalls - 1
    /\ lastLogOut' = "resolved"
    /\ LogOutResolved
    /\ UNCHANGED <<loading, h, nLogins, nEvents, nSignOuts>>
    /\ UNCHANGED signIn
    /\ UNCHANGED <<providerMounted, subscribed>>
    /\ UNCHANGED boardVars
    /\ UNCHANGED pageVars

LogOutFailed ==
    /\ logOutCalls > 0
    /\ logOutCalls' = logOutCalls - 1
    /\ lastLogOut' = "rejected"
    /\ LogOutRejected
    /\ UNCHANGED <<loading, h, nLogins, nEvents, nSignOuts>>
    /\ UNCHANGED signIn
    /\ UNCHANGED <<providerMounted, subscribed>>
    /\ UNCHANGED boardVars
    /\ UNCHANGED pageVars

\* googleSignIn up to `await signInWithPopup(auth, provider)`; the pages that
\* call it are rendered once loading is false.
GoogleSignInCall ==
    /\ ~loading
    /\ signIn # "popup"
    /\ signIn' = "popup"
    /\ UNCHANGED <<user, idToken, role, loading, authUser, evq, h, nLogins, nEvents,
                   nSignOuts, logOutCalls, lastLogOut>>
    /\ UNCHANGED <<providerMounted, subscribed>>
    /\ UNCHANGED boardVars
    /\ UNCHANGED pageVars

\* signInWithPopup resolved: the provider has a new current user and notifies
\* the listener; googleSignIn returns without touching the session.
GoogleSignInOk(u) ==
    /\ signIn = "popup"
    /\ u # authUser
    /\ nLogins + LoginsQueued < MaxLogins
    /\ signIn' = "resolved"
    /\ authUser' = u
    /\ evq' = Append(evq, u)
    /\ UNCHANGED <<user, idToken, role, loading, h, nLogins, nEvents, nSignOuts,
                   logOutCalls, lastLogOut>>
    /\ UNCHANGED <<providerMounted, subscribed>>
    /\ UNCHANGED boardVars
    /\ UNCHANGED pageVars

\* A googleSignIn without its try/catch: the promise it returns rejects.
SignInCatch_Rethrow ==
    /\ signIn' = "rejected"
    /\ UNCHANGED <<user, idToken, role, loading>>

\* catch (error) { console.error("Error signing in with Google: ", error); }
SignInCatch ==
    /\ signIn' = "caught"
    /\ UNCHANGED <<user, idToken, role, loading>>

\* signInWithPopup rejected (popup closed, network error).
GoogleSignInFailed ==
    /\ signIn = "popup"
    /\ SignInCatch
    /\ UNCHANGED <<authUser, evq, h, nLogins, nEvents, nSignOuts, logOutCalls,
                   lastLogOut>>
    /\ UNCHANGED <<providerMounted, subscribed>>
    /\ UNCHANGED boardVars
    /\ UNCHANGED pageVars

\* A cleanup that forgets to call unsubscribe().
Unsubscribe_Forgotten == subscribed' = subscribed

\* The effect's cleanup: return () => unsubscribe()
Unsubscribe == subscribed' = FALSE

\* AuthProvider unmounts: React runs the cleanup of its effect.
UnmountProvider ==
    /\ providerMounted
    /\ providerMounted' = FALSE
    /\ Unsubscribe
    /\ UNCHANGED <<user, idToken, role, loading, authUser, evq, h, nLogins, nEvents,
                   nSignOuts, logOutCalls, lastLogOut, signIn>>
    /\ UNCHANGED boardVars
    /\ UNCHANGED pageVars

\* ---------------------------------------------------------------- HomePage
\* A home page that picks the dashboard by role without looking at the user.
HomeView_IgnoresUser ==
    IF loading THEN "none"
    ELSE IF role = "admin" THEN "AdminDashboard"
    ELSE IF role = "developer" THEN "DeveloperDashboard"
    ELSE IF user = NULL THEN "Loading application..."
    ELSE "Loading user role..."

\* What the home page shows: AuthProvider renders its children only when
\* !loading; HomePage returns the loading screen `if (loading || !user)`, and
\* renderDashboard() picks the dashboard by role.
HomeView ==
    IF loading THEN "none"
    ELSE IF user = NULL THEN "Loading application..."
    ELSE IF role = "admin" THEN "AdminDashboard"
    ELSE IF role = "developer" THEN "DeveloperDashboard"
    ELSE "Loading user role..."

\* HomePage's effect: if (loading) return; if (!user) router.push("/login").
\* The effect exists only while HomePage is rendered.
RedirectToLogin == HomeView # "none" /\ ~loading /\ user = NULL

AuthNext ==
    \/ GoogleSignInCall
    \/ \E u \in Users : GoogleSignInOk(u)
    \/ GoogleSignInFailed
    \/ \E u \in Users : ProviderSignIn(u)
    \/ ProviderSignOut
    \/ AuthStateChanged
    \/ \E i \in Handlers : GetIdTokenResolved(i)
    \/ \E i \in Handlers : GetIdTokenRejected(i)
    \/ \E i \in Handlers, r \in Roles : RoleLookupOk(i, r)
    \/ \E i \in Handlers : RoleLookupFailed(i)
    \/ \E i \in Handlers : ForcedLogOutOk(i)
    \/ \E i \in Handlers : ForcedLogOutFailed(i)
    \/ LogOutCall
    \/ LogOutOk
    \/ LogOutFailed

\* =============================================================== the board
\* A Task as the board caches it; title stands for the fields the board never
\* writes (projectId, title, description, priority).
Task(id, st, ti) == [taskId |-> id, status |-> st, title |-> ti]

HasTask(list, id) == \E k \in 1..Len(list) : list[k].taskId = id

\* tasks.find(t => t.taskId === taskId)
Find(list, id) == list[CHOOSE k \in 1..Len(list) : list[k].taskId = id]

StatusIn(list, id) == IF HasTask(list, id) THEN Find(list, id).status ELSE "absent"

\* Positions of the requests that can be in flight at once.
ReqIds == 1..(MaxOps + 1)

RemoveAt(s, k) == SubSeq(s, 1, k - 1) \o SubSeq(s, k + 1, Len(s))

\* The drops the user makes: <<active.id, over.id>>, over NULL outside every column.
Drops == { <<"t1", "In Progress">>, <<"t1", "Done">>, <<"t2", "Done">>, <<"t2", NULL>> }

\* The changes other actors make to this developer's tasks.
Edits == { <<"t1", "In Review">> }

NoRequest == [kind |-> "none", origin |-> "none", pc |-> "none", taskId |-> NULL,
              prev |-> NULL, target |-> NULL, payload |-> <<>>, fresh |-> FALSE]

NoDrop == [taskId |-> NULL, over |-> NULL, prev |-> NULL, moved |-> FALSE]

BackendInit == <<Task("t1", "To-Do", "a"), Task("t2", "In Progress", "b")>>

BoardInit ==
    /\ tasks = <<>>
    /\ loadingTasks = TRUE
    /\ error = NULL
    /\ mounted = FALSE
    /\ gets = <<>>
    /\ puts = <<>>
    /\ settled = NoRequest
    /\ backend = BackendInit
    /\ nOps = 0
    /\ nEdits = 0
    /\ lastDrop = NoDrop
    /\ okPuts = {}
    /\ failedPuts = {}

\* fetchTasks up to its await: setLoading(true); setError(null); apiClient.get("/tasks/my").
\* A reload made by handleDragEnd's catch block remembers the move it follows.
FetchTasksCall(origin, id, prev, target) ==
    /\ loadingTasks' = TRUE
    /\ error' = NULL
    /\ gets' = Append(gets, [kind |-> "get", origin |-> origin, pc |-> "sent",
                             taskId |-> id, prev |-> prev, target |-> target,
                             payload |-> <<>>, fresh |-> FALSE])

\* useEffect(() => { fetchTasks(); }, [])
Mount ==
    /\ ~mounted
    /\ mounted' = TRUE
    /\ FetchTasksCall("mount", NULL, NULL, NULL)
    /\ UNCHANGED <<tasks, puts, settled, backend, nOps, nEdits, lastDrop, okPuts, failedPuts>>
    /\ UNCHANGED authVars
    /\ UNCHANGED pageVars

\* The Refresh Board button (hidden while loading with an empty list).
Refresh ==
    /\ mounted
    /\ ~(loadingTasks /\ Len(tasks) = 0)
    /\ nOps < MaxOps
    /\ nOps' = nOps + 1
    /\ FetchTasksCall("refresh", NULL, NULL, NULL)
    /\ UNCHANGED <<tasks, mounted, puts, settled, backend, nEdits, lastDrop, okPuts, failedPuts>>
    /\ UNCHANGED authVars
    /\ UNCHANGED pageVars

\* The backend answers GET /tasks/my with the list it holds at that moment.
GetServe(g) ==
    /\ g \in DOMAIN gets
    /\ gets[g].pc = "sent"
    /\ gets' = [gets EXCEPT ![g].pc = "served", ![g].payload = backend,
                            ![g].fresh = TRUE]
    /\ UNCHANGED <<tasks, loadingTasks, error, mounted, puts, settled, backend,
                   nOps, nEdits, lastDrop, okPuts, failedPuts>>
    /\ UNCHANGED authVars
    /\ UNCHANGED pageVars

\* A change of the backend's list makes the answers already served stale; a load
\* response that replaces the cache ends the undisturbed life of the moves in flight.
Stale(reqs) == [g \in 1..Len(reqs) |-> [reqs[g] EXCEPT !.fresh = FALSE]]

\* The same, for the requests about one task only.
StaleFor(reqs, id) ==
    [g \in 1..Len(reqs) |->
        IF reqs[g].taskId = id THEN [reqs[g] EXCEPT !.fresh = FALSE] ELSE reqs[g]]

\* setTasks that ignores the payload once a list is cached.
SetTasks_IgnorePayload(prev, taskData) == IF prev = <<>> THEN taskData ELSE prev

\* setTasks that merges the payload into the cache, keeping cached statuses.
SetTasks_KeepStatus(prev, taskData) ==
    [k \in 1..Len(taskData) |->
        IF HasTask(prev, taskData[k].taskId)
        THEN [taskData[k] EXCEPT !.status = Find(prev, taskData[k].taskId).status]
        ELSE taskData[k]]

\* setTasks that appends the payload to the list already cached.
SetTasks_Append(prev, taskData) == prev \o taskData

\* setTasks(taskData)
SetTasks(prev, taskData) == taskData

\* fetchTasks after its await resolved: setTasks(taskData); finally setLoading(false)
GetOk(g) ==
    /\ g \in DOMAIN gets
    /\ gets[g].pc = "served"
    /\ gets' = RemoveAt(gets, g)
    /\ settled' = [gets[g] EXCEPT !.pc = "ok"]
    /\ tasks' = SetTasks(tasks, gets[g].payload)
    /\ loadingTasks' = FALSE
    /\ puts' = Stale(puts)
    /\ UNCHANGED <<error, mounted, backend, nOps, nEdits, lastDrop, okPuts, failedPuts>>
    /\ UNCHANGED authVars
    /\ UNCHANGED pageVars

\* A catch block that empties the list when the load fails.
KeepTasks_Clear(prev) == <<>>

\* The catch block of fetchTasks leaves the list alone.
KeepTasks(prev) == prev

\* fetchTasks after its await rejected: setError(...); finally setLoading(false)
GetFail(g) ==
    /\ g \in DOMAIN gets
    /\ gets' = RemoveAt(gets, g)
    /\ settled' = [gets[g] EXCEPT !.pc = "failed"]
    /\ tasks' = KeepTasks(tasks)
    /\ error' = "Failed to fetch tasks."
    /\ loadingTasks' = FALSE
    /\ UNCHANGED <<mounted, puts, backend, nOps, nEdits, lastDrop, okPuts, failedPuts>>
    /\ UNCHANGED authVars
    /\ UNCHANGED pageVars

\* A board that waits for the response before it moves the card.
OptimisticUpdate_Deferred(prev, taskId, newStatus) == prev

\* A map that gives the new status to every task of the list.
OptimisticUpdate_AllTasks(prev, taskId, newStatus) ==
    [k \in 1..Len(prev) |-> [prev[k] EXCEPT !.status = newStatus]]

\* prev.map(t => t.taskId === taskId ? { ...t, status: newStatus } : t)
OptimisticUpdate(prev, taskId, newStatus) ==
    [k \in 1..Len(prev) |->
        IF prev[k].taskId = taskId THEN [prev[k] EXCEPT !.status = newStatus]
        ELSE prev[k]]

\* A handleDragEnd that takes every drop on a column for a move.
StatusChanged_Always(list, taskId, over) == over # NULL /\ HasTask(list, taskId)

\* A handleDragEnd without `if (!over) return`.
StatusChanged_NoOverCheck(list, taskId, over) ==
    HasTask(list, taskId) /\ Find(list, taskId).status # over

\* `if (!over) return` and `if (currentTask && currentTask.status !== newStatus)`
StatusChanged(list, taskId, over) ==
    /\ over # NULL
    /\ HasTask(list, taskId)
    /\ Find(list, taskId).status # over

\* A board that keeps one status update per task in flight and drops the rest.
IssuePut_Serialized(reqs, taskId, prev, over) ==
    IF \E p \in 1..Len(reqs) : reqs[p].taskId = taskId THEN reqs
    ELSE Append(reqs, [kind |-> "put", origin |-> "drag", pc |-> "sent",
                       taskId |-> taskId, prev |-> prev, target |-> over,
                       payload |-> <<>>, fresh |-> TRUE])

\* A request that carries the status the task had, not the column dropped on.
IssuePut_SendsPrev(reqs, taskId, prev, over) ==
    Append(StaleFor(reqs, taskId),
           [kind |-> "put", origin |-> "drag", pc |-> "sent",
            taskId |-> taskId, prev |-> prev, target |-> prev, payload |-> <<>>,
            fresh |-> ~(\E p \in 1..Len(reqs) : reqs[p].taskId = taskId)])

\* apiClient.put(`/tasks/${taskId}/status`, { status: newStatus }), up to its await.
\* The move is undisturbed (fresh) if no other move of the task is in flight.
IssuePut(reqs, taskId, prev, over) ==
    Append(StaleFor(reqs, taskId),
           [kind |-> "put", origin |-> "drag", pc |-> "sent",
            taskId |-> taskId, prev |-> prev, target |-> over, payload |-> <<>>,
            fresh |-> ~(\E p \in 1..Len(reqs) : reqs[p].taskId = taskId)])

\* handleDragEnd up to its await, for a card of the rendered board; over is the
\* column dropped on, or NULL.  (The drag overlay, activeTask, is not modelled.)
HandleDragEnd(taskId, over) ==
    /\ mounted
    /\ ~(loadingTasks /\ Len(tasks) = 0)
    /\ nOps < MaxOps
    /\ nOps' = nOps + 1
    /\ lastDrop' = [taskId |-> taskId, over |-> over,
                    prev |-> StatusIn(tasks, taskId),
                    moved |-> StatusChanged(tasks, taskId, over)]
    /\ IF StatusChanged(tasks, taskId, over)
       THEN /\ tasks' = OptimisticUpdate(tasks, taskId, over)
            /\ puts' = IssuePut(puts, taskId, Find(tasks, taskId).status, over)
       ELSE UNCHANGED <<tasks, puts>>
    /\ UNCHANGED <<loadingTasks, error, mounted, gets, settled, backend, nEdits,
                   okPuts, failedPuts>>
    /\ UNCHANGED authVars
    /\ UNCHANGED pageVars

\* The backend applies PUT /tasks/{id}/status to a task it holds.
PutServe(p) ==
    /\ p \in DOMAIN puts
    /\ puts[p].pc = "sent"
    /\ HasTask(backend, puts[p].taskId)
    /\ puts' = [q \in 1..Len(puts) |->
                    IF q = p THEN [puts[q] EXCEPT !.pc = "applied"]
                    ELSE StaleFor(puts, puts[p].taskId)[q]]
    /\ backend' = OptimisticUpdate(backend, puts[p].taskId, puts[p].target)
    /\ gets' = Stale(gets)
    /\ UNCHANGED <<tasks, loadingTasks, error, mounted, settled, nOps, nEdits,
                   lastDrop, okPuts, failedPuts>>
    /\ UNCHANGED authVars
    /\ UNCHANGED pageVars

\* handleDragEnd after its await resolved: nothing more is done.
PutOk(p) ==
    /\ p \in DOMAIN puts
    /\ puts[p].pc = "applied"
    /\ puts' = RemoveAt(puts, p)
    /\ settled' = [puts[p] EXCEPT !.pc = "ok"]
    /\ okPuts' = okPuts \cup {puts[p].taskId}
    /\ UNCHANGED <<tasks, loadingTasks, error, mounted, gets, backend, nOps, nEdits,
                   lastDrop, failedPuts>>
    /\ UNCHANGED authVars
    /\ UNCHANGED pageVars

\* A catch block that sends the status update again before it reloads.
PutFail_Retry(p) ==
    /\ p \in DOMAIN puts
    /\ puts' = Append(RemoveAt(puts, p), [puts[p] EXCEPT !.pc = "sent"])
    /\ settled' = [puts[p] EXCEPT !.pc = "failed"]
    /\ FetchTasksCall("resync", puts[p].taskId, puts[p].prev, puts[p].target)
    /\ failedPuts' = failedPuts \cup {puts[p].taskId}
    /\ UNCHANGED <<tasks, mounted, backend, nOps, nEdits, lastDrop, okPuts>>
    /\ UNCHANGED authVars
    /\ UNCHANGED pageVars

\* handleDragEnd after its await rejected (error response, or the response was
\* lost after the backend applied the change): the catch block calls fetchTasks().
PutFail(p) ==
    /\ p \in DOMAIN puts
    /\ puts' = RemoveAt(puts, p)
    /\ settled' = [puts[p] EXCEPT !.pc = "failed"]
    /\ FetchTasksCall("resync", puts[p].taskId, puts[p].prev, puts[p].target)
    /\ failedPuts' = failedPuts \cup {puts[p].taskId}
    /\ UNCHANGED <<tasks, mounted, backend, nOps, nEdits, lastDrop, okPuts>>
    /\ UNCHANGED authVars
    /\ UNCHANGED pageVars

\* Another actor changes the status of one of this developer's tasks.
OtherActorSetStatus(id, st) ==
    /\ nEdits < MaxEdits
    /\ HasTask(backend, id)
    /\ Find(backend, id).status # st
    /\ nEdits' = nEdits + 1
    /\ backend' = OptimisticUpdate(backend, id, st)
    /\ gets' = Stale(gets)
    /\ puts' = StaleFor(puts, id)
    /\ UNCHANGED <<tasks, loadingTasks, error, mounted, settled, nOps, lastDrop, okPuts, failedPuts>>
    /\ UNCHANGED authVars
    /\ UNCHANGED pageVars

BoardNext ==
    \/ Mount
    \/ Refresh
    \/ \E g \in ReqIds : GetServe(g)
    \/ \E g \in ReqIds : GetOk(g)
    \/ \E g \in ReqIds : GetFail(g)
    \/ \E d \in Drops : HandleDragEnd(d[1], d[2])
    \/ \E p \in ReqIds : PutServe(p)
    \/ \E p \in ReqIds : PutOk(p)
    \/ \E p \in ReqIds : PutFail(p)
    \/ \E e \in Edits : OtherActorSetStatus(e[1], e[2])

\* ============================================================ fetchFromApi
\* The statuses the backend answers with.
HttpStatuses == {200, 201, 204, 301, 400, 401, 404, 500}

\* response.ok
Ok(status) == status \in 200..299

NoContent == 204

\* What a response body is to response.json(): not JSON at all ("none"), the
\* JSON value null, or a JSON object, whose detail field is absent (NULL),
\* the empty string or a message.
Body(kind, detail) == [kind |-> kind, detail |-> detail]

JsonNull == Body("null", NULL)

Bodies == { Body("none", NULL), JsonNull, Body("object", NULL), Body("object", ""),
            Body("object", "Task not found") }

\* options.headers as the caller passes them.
CallerHeaders == { [Authorization |-> NULL, ContentType |-> NULL],
                   [Authorization |-> "Bearer stale", ContentType |-> NULL],
                   [Authorization |-> NULL, ContentType |-> "text/plain"] }

NoHeaders == [Authorization |-> NULL, ContentType |-> NULL]

NoResult == [outcome |-> "none", value |-> JsonNull, message |-> NULL]

Returns(v) == [outcome |-> "returns", value |-> v, message |-> NULL]

Throws(msg) == [outcome |-> "throws", value |-> JsonNull, message |-> msg]

NoCall == [pc |-> "idle", cu |-> NULL, caller |-> NoHeaders, headers |-> NoHeaders,
           sent |-> FALSE, status |-> 0, body |-> JsonNull, result |-> NoResult]

\* ====================================================== UserManagementPage
\* The user ids the backend lists: the two that sign in here and one more.
UserIds == Users \cup {"u3"}

\* What GET /admin/users answers.
UsersData == << [uid |-> "u1", role |-> "admin"],
                [uid |-> "u2", role |-> "developer"],
                [uid |-> "u3", role |-> "developer"] >>

HasUser(list, uid) == \E k \in 1..Len(list) : list[k].uid = uid

RoleIn(list, uid) ==
    IF HasUser(list, uid)
    THEN list[CHOOSE k \in 1..Len(list) : list[k].uid = uid].role
    ELSE "absent"

\* Positions of the role changes that can be in flight at once.
RoleChangeIds == 1..MaxRoleChanges

NoRoleChange == [userId |-> NULL, newRole |-> NULL, pc |-> "none"]

UmInit ==
    /\ umUsers = <<>>
    /\ umLoading = TRUE
    /\ umError = NULL
    /\ umSuccess = NULL
    /\ umFetch = "none"
    /\ umCalls = <<>>
    /\ umTimers = 0
    /\ umSettled = NoRoleChange
    /\ umLast = NoRoleChange
    /\ umOps = 0

\* ========================================================= AdminReviewPage
\* What the backend holds when the page is opened: nothing is approved yet.
ReviewData == << [taskId |-> "t1", isApproved |-> FALSE],
                 [taskId |-> "t2", isApproved |-> FALSE] >>

Approved(list, id) == HasTask(list, id) /\ Find(list, id).isApproved

\* Positions of the fetchData() calls and of the approve/delete calls that
\* can be in progress at once.
ReviewGetIds == 1..(MaxReviewOps + 1)

ReviewCallIds == 1..MaxReviewOps

NoReviewCall == [kind |-> "none", taskId |-> NULL, pc |-> "none"]

RvInit ==
    /\ rvTasks = <<>>
    /\ rvLoading = TRUE
    /\ rvError = NULL
    /\ rvMounted = FALSE
    /\ rvBackend = ReviewData
    /\ rvGets = <<>>
    /\ rvCalls = <<>>
    /\ rvDone = {}
    /\ rvSettled = NoReviewCall
    /\ rvLast = NoReviewCall
    /\ rvOps = 0

PagesInit == api = NoCall /\ UmInit /\ RvInit

\* fetchData() up to its first await: setLoading(true); setError(null);
\* apiClient.get("/admin/tasks").
FetchDataCall ==
    /\ rvLoading' = TRUE
    /\ rvError' = NULL
    /\ rvGets' = Append(rvGets, [pc |-> "sent", payload |-> <<>>])

\* useEffect(() => { fetchData() }, [])
RvMount ==
    /\ ~rvMounted
    /\ rvMounted' = TRUE
    /\ FetchDataCall
    /\ UNCHANGED <<rvTasks, rvBackend, rvCalls, rvDone, rvSettled, rvLast, rvOps>>
    /\ UNCHANGED <<api, umVars>>
    /\ UNCHANGED authVars
    /\ UNCHANGED boardVars

\* onTaskCreated={fetchData} / onTaskUpdated={fetchData}: a modal asks for a
\* reload.
RvReload ==
    /\ rvMounted
    /\ rvOps < MaxReviewOps
    /\ rvOps' = rvOps + 1
    /\ FetchDataCall
    /\ UNCHANGED <<rvTasks, rvMounted, rvBackend, rvCalls, rvDone, rvSettled, rvLast>>
    /\ UNCHANGED <<api, umVars>>
    /\ UNCHANGED authVars
    /\ UNCHANGED boardVars

\* The backend answers GET /admin/tasks with what it holds.
RvGetServe(g) ==
    /\ g \in DOMAIN rvGets
    /\ rvGets[g].pc = "sent"
    /\ rvGets' = [rvGets EXCEPT ![g] = [pc |-> "served", payload |-> rvBackend]]
    /\ UNCHANGED <<rvTasks, rvLoading, rvError, rvMounted, rvBackend, rvCalls, rvDone,
                   rvSettled, rvLast, rvOps>>
    /\ UNCHANGED <<api, umVars>>
    /\ UNCHANGED authVars
    /\ UNCHANGED boardVars

\* fetchData after its first await resolved: setTasks(taskData), then
\* apiClient.get("/admin/developers").
RvTasksOk(g) ==
    /\ g \in DOMAIN rvGets
    /\ rvGets[g].pc = "served"
    /\ rvTasks' = rvGets[g].payload
    /\ rvGets' = [rvGets EXCEPT ![g].pc = "developers"]
    /\ UNCHANGED <<rvLoading, rvError, rvMounted, rvBackend, rvCalls, rvDone,
                   rvSettled, rvLast, rvOps>>
    /\ UNCHANGED <<api, umVars>>
    /\ UNCHANGED authVars
    /\ UNCHANGED boardVars

\* fetchData after its second await resolved: setDevelopers(devData); finally
\* setLoading(false).
RvDevelopersOk(g) ==
    /\ g \in DOMAIN rvGets
    /\ rvGets[g].pc = "developers"
    /\ rvGets' = RemoveAt(rvGets, g)
    /\ rvLoading' = FALSE
    /\ UNCHANGED <<rvTasks, rvError, rvMounted, rvBackend, rvCalls, rvDone,
                   rvSettled, rvLast, rvOps>>
    /\ UNCHANGED <<api, umVars>>
    /\ UNCHANGED authVars
    /\ UNCHANGED boardVars

\* fetchData after either await rejected: setError(...); finally
\* setLoading(false).
RvFetchFailed(g) ==
    /\ g \in DOMAIN rvGets
    /\ rvGets' = RemoveAt(rvGets, g)
    /\ rvError' = "Failed to fetch data."
    /\ rvLoading' = FALSE
    /\ UNCHANGED <<rvTasks, rvMounted, rvBackend, rvCalls, rvDone, rvSettled, rvLast, rvOps>>
    /\ UNCHANGED <<api, umVars>>
    /\ UNCHANGED authVars
    /\ UNCHANGED boardVars

\* The list of tasks is rendered: {!loading && !error && (...)}.
RowShown(id) == rvMounted /\ ~rvLoading /\ rvError = NULL /\ HasTask(rvTasks, id)

\* handleApprove(taskId) up to its await; the button is rendered for a task
\* that is not approved.
HandleApprove(id) ==
    /\ RowShown(id)
    /\ ~Approved(rvTasks, id)
    /\ rvOps < MaxReviewOps
    /\ rvOps' = rvOps + 1
    /\ rvLast' = [kind |-> "approve", taskId |-> id, pc |-> "sent"]
    /\ rvCalls' = Append(rvCalls, [kind |-> "approve", taskId |-> id, pc |-> "sent"])
    /\ UNCHANGED <<rvTasks, rvLoading, rvError, rvMounted, rvBackend, rvGets, rvDone,
                   rvSettled>>
    /\ UNCHANGED <<api, umVars>>
    /\ UNCHANGED authVars
    /\ UNCHANGED boardVars

\* handleDelete(taskId) up to its await: `if (!confirm(...)) return`, then
\* apiClient.delete.
HandleDelete(id, confirmed) ==
    /\ RowShown(id)
    /\ rvOps < MaxReviewOps
    /\ rvOps' = rvOps + 1
    /\ rvLast' = [kind |-> "delete", taskId |-> id,
                  pc |-> IF confirmed THEN "sent" ELSE "unconfirmed"]
    /\ rvCalls' = IF confirmed
                  THEN Append(rvCalls, [kind |-> "delete", taskId |-> id, pc |-> "sent"])
                  ELSE rvCalls
    /\ UNCHANGED <<rvTasks, rvLoading, rvError, rvMounted, rvBackend, rvGets, rvDone,
                   rvSettled>>
    /\ UNCHANGED <<api, umVars>>
    /\ UNCHANGED authVars
    /\ UNCHANGED boardVars

\* A list update that approves every task.
ApproveTask_All(list, id) ==
    [k \in 1..Len(list) |-> [list[k] EXCEPT !.isApproved = TRUE]]

\* currentTasks.map(task => task.taskId === taskId ? { ...task, isApproved: true } : task)
ApproveTask(list, id) ==
    [k \in 1..Len(list) |->
        IF list[k].taskId = id THEN [list[k] EXCEPT !.isApproved = TRUE] ELSE list[k]]

\* currentTasks.filter(task => task.taskId !== taskId)
RemoveTask(list, id) == SelectSeq(list, LAMBDA task : task.taskId # id)

\* What a call does to a list of tasks.
Carry(list, call) ==
    IF call.kind = "approve" THEN ApproveTask(list, call.taskId)
    ELSE RemoveTask(list, call.taskId)

\* The backend carries out an approve or delete call of a task it holds.
RvCallServe(c) ==
    /\ c \in DOMAIN rvCalls
    /\ rvCalls[c].pc = "sent"
    /\ HasTask(rvBackend, rvCalls[c].taskId)
    /\ rvBackend' = Carry(rvBackend, rvCalls[c])
    /\ rvDone' = rvDone \cup {<<rvCalls[c].kind, rvCalls[c].taskId>>}
    /\ rvCalls' = [rvCalls EXCEPT ![c].pc = "applied"]
    /\ UNCHANGED <<rvTasks, rvLoading, rvError, rvMounted, rvGets, rvSettled, rvLast, rvOps>>
    /\ UNCHANGED <<api, umVars>>
    /\ UNCHANGED authVars
    /\ UNCHANGED boardVars

\* handleApprove or handleDelete after its await resolved: the setTasks(...)
\* of the handler.
RvCallOk(c) ==
    /\ c \in DOMAIN rvCalls
    /\ rvCalls[c].pc = "applied"
    /\ rvCalls' = RemoveAt(rvCalls, c)
    /\ rvSettled' = [rvCalls[c] EXCEPT !.pc = "ok"]
    /\ rvTasks' = Carry(rvTasks, rvCalls[c])
    /\ UNCHANGED <<rvLoading, rvError, rvMounted, rvBackend, rvGets, rvDone, rvLast, rvOps>>
    /\ UNCHANGED <<api, umVars>>
    /\ UNCHANGED authVars
    /\ UNCHANGED boardVars

\* handleApprove or handleDelete after its await rejected (error response, or
\* the response was lost): console.error and an alert.
RvCallFailed(c) ==
    /\ c \in DOMAIN rvCalls
    /\ rvCalls' = RemoveAt(rvCalls, c)
    /\ rvSettled' = [rvCalls[c] EXCEPT !.pc = "failed"]
    /\ UNCHANGED <<rvTasks, rvLoading, rvError, rvMounted, rvBackend, rvGets, rvDone,
                   rvLast, rvOps>>
    /\ UNCHANGED <<api, umVars>>
    /\ UNCHANGED authVars
    /\ UNCHANGED boardVars

ReviewNext ==
    \/ RvMount
    \/ RvReload
    \/ \E g \in ReviewGetIds : RvGetServe(g)
    \/ \E g \in ReviewGetIds : RvTasksOk(g)
    \/ \E g \in ReviewGetIds : RvDevelopersOk(g)
    \/ \E g \in ReviewGetIds : RvFetchFailed(g)
    \/ \E id \in TaskIds : HandleApprove(id)
    \/ \E id \in TaskIds, confirmed \in BOOLEAN : HandleDelete(id, confirmed)
    \/ \E c \in ReviewCallIds : RvCallServe(c)
    \/ \E c \in ReviewCallIds : RvCallOk(c)
    \/ \E c \in ReviewCallIds : RvCallFailed(c)

\* The session of an admin, as the callback leaves it after a login.
ReadySession(u) ==
    /\ user = u
    /\ idToken = Token(u)
    /\ role = "admin"
    /\ loading = FALSE
    /\ authUser = u
    /\ evq = <<>>
    /\ h = [i \in Handlers |->
                IF i = 1 THEN [cu |-> u, pc |-> "done", sent |-> TRUE] ELSE IdleHandler]
    /\ nLogins = 1
    /\ nEvents = 1
    /\ nSignOuts = 0
    /\ logOutCalls = 0
    /\ lastLogOut = "none"
    /\ signIn = "idle"
    /\ providerMounted = TRUE
    /\ subscribed = TRUE

\* The page is mounted: useEffect(() => { fetchUsers() }, []), up to its await.
UmMount ==
    /\ umFetch = "none"
    /\ umFetch' = "inFlight"
    /\ umLoading' = TRUE
    /\ UNCHANGED <<umUsers, umError, umSuccess, umCalls, umTimers, umSettled, umLast, umOps>>
    /\ UNCHANGED <<api, rvVars>>
    /\ UNCHANGED authVars
    /\ UNCHANGED boardVars

\* fetchUsers after its await resolved: setUsers(data); setError(null); finally
\* setLoading(false).
FetchUsersOk ==
    /\ umFetch = "inFlight"
    /\ umFetch' = "done"
    /\ umUsers' = UsersData
    /\ umError' = NULL
    /\ umLoading' = FALSE
    /\ UNCHANGED <<umSuccess, umCalls, umTimers, umSettled, umLast, umOps>>
    /\ UNCHANGED <<api, rvVars>>
    /\ UNCHANGED authVars
    /\ UNCHANGED boardVars

\* fetchUsers after its await rejected: setError(...); finally setLoading(false).
FetchUsersFailed ==
    /\ umFetch = "inFlight"
    /\ umFetch' = "done"
    /\ umError' = "Failed to load users."
    /\ umLoading' = FALSE
    /\ UNCHANGED <<umUsers, umSuccess, umCalls, umTimers, umSettled, umLast, umOps>>
    /\ UNCHANGED <<api, rvVars>>
    /\ UNCHANGED authVars
    /\ UNCHANGED boardVars

\* A handleRoleChange without the check of the own uid.
IsSelf_Never(userId) == FALSE

\* `userId === currentUser?.uid`, currentUser being the session's user.
IsSelf(userId) == user # NULL /\ userId = user

\* handleRoleChange(userId, newRole) up to its await, for a row of the table
\* (the table is rendered when !loading && !error): the own uid gets an alert
\* and a return, any other the PUT /admin/users/{userId}/role.
HandleRoleChange(userId, newRole) ==
    /\ ~umLoading
    /\ umError = NULL
    /\ HasUser(umUsers, userId)
    /\ umOps < MaxRoleChanges
    /\ umOps' = umOps + 1
    /\ umLast' = [userId |-> userId, newRole |-> newRole,
                  pc |-> IF IsSelf(userId) THEN "refused" ELSE "sent"]
    /\ umCalls' = IF IsSelf(userId) THEN umCalls
                  ELSE Append(umCalls, [userId |-> userId, newRole |-> newRole,
                                        pc |-> "sent"])
    /\ UNCHANGED <<umUsers, umLoading, umError, umSuccess, umFetch, umTimers, umSettled>>
    /\ UNCHANGED <<api, rvVars>>
    /\ UNCHANGED authVars
    /\ UNCHANGED boardVars

\* A list update that gives every user the new role.
SetRole_Everyone(list, userId, newRole) ==
    [k \in 1..Len(list) |-> [list[k] EXCEPT !.role = newRole]]

\* prevUsers.map(u => u.uid === userId ? { ...u, role: newRole } : u)
SetRole(list, userId, newRole) ==
    [k \in 1..Len(list) |->
        IF list[k].uid = userId THEN [list[k] EXCEPT !.role = newRole] ELSE list[k]]

\* handleRoleChange after its await resolved: setSuccess(...), setUsers(...),
\* setTimeout(() => setSuccess(null), 3000).
RoleChangeOk(c) ==
    /\ c \in DOMAIN umCalls
    /\ umCalls' = RemoveAt(umCalls, c)
    /\ umSettled' = [umCalls[c] EXCEPT !.pc = "ok"]
    /\ umSuccess' = umCalls[c].newRole
    /\ umUsers' = SetRole(umUsers, umCalls[c].userId, umCalls[c].newRole)
    /\ umTimers' = umTimers + 1
    /\ UNCHANGED <<umLoading, umError, umFetch, umLast, umOps>>
    /\ UNCHANGED <<api, rvVars>>
    /\ UNCHANGED authVars
    /\ UNCHANGED boardVars

\* handleRoleChange after its await rejected: console.error and an alert.
RoleChangeFailed(c) ==
    /\ c \in DOMAIN umCalls
    /\ umCalls' = RemoveAt(umCalls, c)
    /\ umSettled' = [umCalls[c] EXCEPT !.pc = "failed"]
    /\ UNCHANGED <<umUsers, umLoading, umError, umSuccess, umFetch, umTimers, umLast, umOps>>
    /\ UNCHANGED <<api, rvVars>>
    /\ UNCHANGED authVars
    /\ UNCHANGED boardVars

\* A timeout fires: setSuccess(null).
SuccessTimeout ==
    /\ umTimers > 0
    /\ umTimers' = umTimers - 1
    /\ umSuccess' = NULL
    /\ UNCHANGED <<umUsers, umLoading, umError, umFetch, umCalls, umSettled, umLast, umOps>>
    /\ UNCHANGED <<api, rvVars>>
    /\ UNCHANGED authVars
    /\ UNCHANGED boardVars

UsersNext ==
    \/ UmMount
    \/ FetchUsersOk
    \/ FetchUsersFailed
    \/ \E uid \in UserIds, r \in Roles : HandleRoleChange(uid, r)
    \/ \E c \in RoleChangeIds : RoleChangeOk(c)
    \/ \E c \in RoleChangeIds : RoleChangeFailed(c)
    \/ SuccessTimeout

\* Headers that keep what the caller passed.
SetHeaders_KeepCaller(caller, token) ==
    [Authorization |-> IF caller.Authorization # NULL THEN caller.Authorization
                       ELSE "Bearer " \o token,
     ContentType |-> IF caller.ContentType # NULL THEN caller.ContentType
                     ELSE "application/json"]

\* new Headers(options.headers || {}); headers.set('Authorization', `Bearer ${token}`);
\* headers.set('Content-Type', 'application/json')
SetHeaders(caller, token) ==
    [caller EXCEPT !.Authorization = "Bearer " \o token,
                   !.ContentType = "application/json"]

\* JavaScript's `errorData.detail || 'API request failed'`: an absent or empty
\* detail is falsy.
DetailOr(detail, default) == IF detail \in {NULL, ""} THEN default ELSE detail

\* A mapping that tests for 204 only after it has parsed the body.
MapResponse_ParseFirst(status, body) ==
    IF ~Ok(status)
    THEN Throws(DetailOr(body.detail, "API request failed"))
    ELSE IF body.kind = "none" THEN Throws("SyntaxError")
    ELSE Returns(body)

\* fetchFromApi after `await fetch(...)`: if (!response.ok) { errorData = await
\* response.json().catch(() => ({})); throw new Error(errorData.detail || ...) };
\* if (response.status === 204) return null; return response.json().
\* Reading .detail of a JSON null throws a TypeError; response.json() of a body
\* that is not JSON rejects with a SyntaxError.
MapResponse(status, body) ==
    IF ~Ok(status)
    THEN IF body.kind = "null" THEN Throws("TypeError")
         ELSE Throws(DetailOr(body.detail, "API request failed"))
    ELSE IF status = NoContent THEN Returns(JsonNull)
    ELSE IF body.kind = "none" THEN Throws("SyntaxError")
    ELSE Returns(body)

\* fetchFromApi up to `await user.getIdToken()`, or to its throw.
FetchFromApiCall(hd) ==
    /\ api.pc \in {"idle", "settled"}
    /\ api' = IF HasCurrentUser
              THEN [NoCall EXCEPT !.pc = "getIdToken", !.cu = authUser, !.caller = hd]
              ELSE [NoCall EXCEPT !.pc = "settled", !.caller = hd,
                                  !.result = Throws("No authenticated user found.")]
    /\ UNCHANGED <<umVars, rvVars>>
    /\ UNCHANGED authVars
    /\ UNCHANGED boardVars

\* getIdToken resolved: the headers are set and fetch(...) is called.
FetchTokenOk ==
    /\ api.pc = "getIdToken"
    /\ api' = [api EXCEPT !.pc = "fetch", !.sent = TRUE,
                          !.headers = SetHeaders(api.caller, Token(api.cu))]
    /\ UNCHANGED <<umVars, rvVars>>
    /\ UNCHANGED authVars
    /\ UNCHANGED boardVars

\* getIdToken rejected: fetchFromApi rejects before it calls fetch.
FetchTokenFailed ==
    /\ api.pc = "getIdToken"
    /\ api' = [api EXCEPT !.pc = "settled", !.result = Throws("getIdToken failed")]
    /\ UNCHANGED <<umVars, rvVars>>
    /\ UNCHANGED authVars
    /\ UNCHANGED boardVars

\* The backend's response arrives.
FetchResponse(status, body) ==
    /\ api.pc = "fetch"
    /\ api' = [api EXCEPT !.pc = "settled", !.status = status, !.body = body,
                          !.result = MapResponse(status, body)]
    /\ UNCHANGED <<umVars, rvVars>>
    /\ UNCHANGED authVars
    /\ UNCHANGED boardVars

\* fetch(...) rejects: no response at all.
FetchNetworkError ==
    /\ api.pc = "fetch"
    /\ api' = [api EXCEPT !.pc = "settled", !.result = Throws("Failed to fetch")]
    /\ UNCHANGED <<umVars, rvVars>>
    /\ UNCHANGED authVars
    /\ UNCHANGED boardVars

ApiNext ==
    \/ \E hd \in CallerHeaders : FetchFromApiCall(hd)
    \/ FetchTokenOk
    \/ FetchTokenFailed
    \/ \E status \in HttpStatuses, body \in Bodies : FetchResponse(status, body)
    \/ FetchNetworkError

\* ======================================================== specifications
\* The session alone: the board is not mounted.
InitAuth == AuthInit /\ BoardInit /\ PagesInit

SpecAuth == InitAuth /\ [][AuthNext]_vars

\* The board alone, under a session that does not move.
InitBoard == AuthInit /\ authUser = NULL /\ BoardInit /\ PagesInit

SpecBoard == InitBoard /\ [][BoardNext]_vars

\* The application from its start with a user signed in at the provider: the
\* session comes up, and the board is mounted once the home page shows the
\* developer dashboard.
InitApp == AuthInit /\ authUser = "u1" /\ BoardInit /\ PagesInit

AppNext ==
    \/ AuthStateChanged
    \/ \E i \in Handlers : GetIdTokenResolved(i)
    \/ \E i \in Handlers : GetIdTokenRejected(i)
    \/ \E i \in Handlers, r \in Roles : RoleLookupOk(i, r)
    \/ \E i \in Handlers : RoleLookupFailed(i)
    \/ \E i \in Handlers : ForcedLogOutOk(i)
    \/ \E i \in Handlers : ForcedLogOutFailed(i)
    \/ (HomeView = "DeveloperDashboard" /\ Mount)
    \/ Refresh
    \/ \E g \in ReqIds : GetServe(g)
    \/ \E g \in ReqIds : GetOk(g)
    \/ \E g \in ReqIds : GetFail(g)
    \/ \E d \in Drops : HandleDragEnd(d[1], d[2])
    \/ \E p \in ReqIds : PutServe(p)
    \/ \E p \in ReqIds : PutOk(p)
    \/ \E p \in ReqIds : PutFail(p)
    \/ \E e \in Edits : OtherActorSetStatus(e[1], e[2])

SpecApp == InitApp /\ [][AppNext]_vars

\* The life of the subscription: the provider's events, the invocations of
\* the callback they cause, and the unmount of AuthProvider.
SubscriptionNext ==
    \/ \E u \in Users : ProviderSignIn(u)
    \/ ProviderSignOut
    \/ AuthStateChanged
    \/ \E i \in Handlers : GetIdTokenResolved(i)
    \/ \E i \in Handlers : GetIdTokenRejected(i)
    \/ \E i \in Handlers, r \in Roles : RoleLookupOk(i, r)
    \/ \E i \in Handlers : RoleLookupFailed(i)
    \/ \E i \in Handlers : ForcedLogOutOk(i)
    \/ \E i \in Handlers : ForcedLogOutFailed(i)
    \/ UnmountProvider

SpecSubscription == InitAuth /\ [][SubscriptionNext]_vars

\* The callback while AuthProvider stays mounted.
CallbackNext ==
    \/ \E u \in Users : ProviderSignIn(u)
    \/ ProviderSignOut
    \/ AuthStateChanged
    \/ \E i \in Handlers : GetIdTokenResolved(i)
    \/ \E i \in Handlers : GetIdTokenRejected(i)
    \/ \E i \in Handlers, r \in Roles : RoleLookupOk(i, r)
    \/ \E i \in Handlers : RoleLookupFailed(i)
    \/ \E i \in Handlers : ForcedLogOutOk(i)
    \/ \E i \in Handlers : ForcedLogOutFailed(i)

\* The event loop delivers every notification, and every promise the callback
\* awaits settles, one way or the other.
CallbackFairness ==
    /\ WF_vars(AuthStateChanged)
    /\ \A i \in Handlers :
          /\ WF_vars(GetIdTokenResolved(i) \/ GetIdTokenRejected(i))
          /\ WF_vars((\E r \in Roles : RoleLookupOk(i, r)) \/ RoleLookupFailed(i))
          /\ WF_vars(ForcedLogOutOk(i) \/ ForcedLogOutFailed(i))

\* fetchFromApi alone, with or without a current user at the provider.
SpecApi == InitAuth /\ [][ApiNext]_vars

\* The user management page under the session of an admin.
InitUsers == (\E u \in Users : ReadySession(u)) /\ BoardInit /\ PagesInit

SpecUsers == InitUsers /\ [][UsersNext]_vars

\* The review inbox under the session of an admin.
SpecReview == InitUsers /\ [][ReviewNext]_vars

SpecCallbackLive == InitAuth /\ [][CallbackNext]_vars /\ CallbackFairness

\* ================================================================ claims
Cleared == user = NULL /\ idToken = NULL /\ role = NULL

\* C1: in every observable session state (loading = false), role is never
\* non-null while user is null.
C1_RoleOnlyWithUser == ~loading => (role # NULL => user # NULL)

\* C2: when the role lookup of a logged-in event fails, then once that handler
\* has finished the session is user = null, idToken = null, role = null,
\* loading = false, whatever the outcome of the forced sign-out.
C2_LookupFailureClears ==
    [][\A i \in Handlers :
          (h[i].pc = "signOut" /\ h'[i].pc = "done")
              => (user' = NULL /\ idToken' = NULL /\ role' = NULL /\ ~loading')]_vars

\* C3: logOut() always leaves the session cleared and unauthenticated, also
\* when the provider's signOut call fails.
C3_LogOutClears ==
    [][logOutCalls' < logOutCalls
          => (user' = NULL /\ idToken' = NULL /\ role' = NULL
              /\ Phase' = "unauthenticated")]_vars

\* C4: no reachable state has loading = false and a user while role is still null.
C4_ReadyHasRole == (~loading /\ user # NULL) => role # NULL

\* C5: in every reachable state idToken is non-null iff user is non-null.
C5_TokenIffUser == (idToken # NULL) <=> (user # NULL)

\* C6: auth-state events are handled one at a time; no two handlers are ever in
\* progress at once.
C6_OneHandlerAtATime ==
    [][nEvents' > nEvents => \A i \in Handlers : h[i].pc \notin InProgress]_vars

\* C7 as claimed: the phase changes only along initializing->authenticating,
\* authenticating->ready, ready->unauthenticated, authenticating->unauthenticated
\* and unauthenticated->authenticating.
ClaimedPhaseSteps ==
    { <<"initializing", "authenticating">>, <<"authenticating", "ready">>,
      <<"ready", "unauthenticated">>, <<"authenticating", "unauthenticated">>,
      <<"unauthenticated", "authenticating">> }

C7_ClaimedPhaseSteps == [][Phase' # Phase => <<Phase, Phase'>> \in ClaimedPhaseSteps]_vars

PhaseSteps ==
    ClaimedPhaseSteps \cup { <<"initializing", "unauthenticated">>,
                             <<"ready", "authenticating">> }

\* C7 (amended): the phase changes only along the five claimed steps and along
\* initializing->unauthenticated and ready->authenticating.
C7_PhaseSteps == [][Phase' # Phase => <<Phase, Phase'>> \in PhaseSteps]_vars

\* A second logged-in event is being handled after the first was handled to its end.
C7_Witness ==
    /\ Phase = "authenticating"
    /\ h[1].pc = "done"
    /\ h[2].pc \in InProgress

\* A reload made by handleDragEnd's catch block settles in this step.
ResyncSettles ==
    /\ Len(gets') < Len(gets)
    /\ settled'.kind = "get"
    /\ settled'.origin = "resync"

\* C8: when handleDragEnd moves a cached task to a different status, the cached
\* status equals the target status as soon as the status update is issued,
\* before the request settles.
C8_OptimisticBeforeResponse ==
    [][Len(puts') > Len(puts)
          => LET p == puts'[Len(puts')] IN
             /\ p.pc = "sent"
             /\ p.prev # p.target
             /\ StatusIn(tasks, p.taskId) = p.prev
             /\ StatusIn(tasks', p.taskId) = p.target]_vars

\* A status update is in flight, the backend has not applied it, and the card
\* already shows the target status.
C8_Witness ==
    \E p \in 1..Len(puts) :
        /\ puts[p].pc = "sent"
        /\ StatusIn(tasks, puts[p].taskId) = puts[p].target
        /\ StatusIn(backend, puts[p].taskId) # puts[p].target

\* C9: if a status update fails and the reload it triggers succeeds, the cache
\* after that reload equals exactly the reload's payload.
C9_ResyncEqualsPayload ==
    [][(ResyncSettles /\ settled'.pc = "ok") => tasks' = settled'.payload]_vars

\* After a successful resynchronization the moved task shows a status that is
\* neither the one before the move nor the optimistic target.
C9_Witness ==
    /\ settled.kind = "get"
    /\ settled.origin = "resync"
    /\ settled.pc = "ok"
    /\ tasks = settled.payload
    /\ StatusIn(tasks, settled.taskId) \in Statuses \ {settled.prev, settled.target}

DragStep == nOps' = nOps + 1 /\ gets' = gets

\* A load settles in this step.
GetSettles == Len(gets') < Len(gets) /\ settled'.kind = "get"

\* A status update settles in this step.
PutSettles == Len(puts') < Len(puts) /\ settled'.kind = "put"

PutsFor(id) == {p \in 1..Len(puts) : puts[p].taskId = id}

\* C11: transitions on different tasks are independent: when the transition of
\* task A settles (its update succeeds, or it fails and its reload settles),
\* a task B # A whose own update has succeeded, which has no update in flight
\* and which agreed with the backend before the step, still agrees with the
\* backend after it (no other actor has changed anything).
C11_IndependentTasks ==
    [][((PutSettles /\ settled'.pc = "ok") \/ ResyncSettles)
          => \A B \in okPuts \ {settled'.taskId} :
                (/\ nEdits = 0
                 /\ PutsFor(B) = {}
                 /\ StatusIn(tasks, B) = StatusIn(backend, B))
                    => StatusIn(tasks', B) = StatusIn(backend', B)]_vars

\* C12: a drop of a task on the column of its cached status changes nothing:
\* no status update is issued, no transition becomes pending, the task list,
\* the loading flag and the error are as before.
C12_SameStatusNoOp ==
    [][(DragStep /\ lastDrop'.over = StatusIn(tasks, lastDrop'.taskId))
          => UNCHANGED <<tasks, puts, gets, loadingTasks, error, backend>>]_vars

\* A task that was moved to a column is dropped on that column again.
C12_Witness ==
    /\ lastDrop.over # NULL
    /\ lastDrop.over = lastDrop.prev
    /\ ~lastDrop.moved
    /\ StatusIn(tasks, lastDrop.taskId) = lastDrop.over
    /\ StatusIn(BackendInit, lastDrop.taskId) # lastDrop.over

\* C13: a failed load leaves the task list exactly as it was; only the error
\* and the loading flag change.
C13_FailedLoadKeepsTasks ==
    [][(GetSettles /\ settled'.pc = "failed")
          => /\ tasks' = tasks
             /\ error' # NULL
             /\ ~loadingTasks'
             /\ UNCHANGED <<puts, backend, mounted>>]_vars

\* A load failed with a non-empty list cached, which is still there.
C13_Witness ==
    /\ settled.kind = "get"
    /\ settled.pc = "failed"
    /\ error # NULL
    /\ ~loadingTasks
    /\ Len(tasks) = Len(BackendInit)

C15_SecondPutAtOnce ==
    [][(DragStep /\ lastDrop'.moved /\ PutsFor(lastDrop'.taskId) # {})
          => /\ Len(puts') = Len(puts) + 1
             /\ puts'[Len(puts')].pc = "sent"
             /\ puts'[Len(puts')].taskId = lastDrop'.taskId
             /\ puts'[Len(puts')].target = lastDrop'.over
             /\ \A p \in 1..Len(puts) :
                   /\ puts'[p].pc = puts[p].pc
                   /\ puts'[p].taskId = puts[p].taskId
                   /\ puts'[p].target = puts[p].target]_vars

\* Two status updates of one task, to different statuses, wait for the backend.
C15_Witness ==
    \E p, q \in 1..Len(puts) :
        /\ p < q
        /\ puts[p].taskId = puts[q].taskId
        /\ puts[p].target # puts[q].target
        /\ puts[p].pc = "sent"
        /\ puts[q].pc = "sent"

\* C16: when every response has arrived and the last one was a successful
\* load, the cache is the payload of that load and that payload is the list
\* the backend holds (no other actor has changed anything).
C16_LastResponseWins ==
    (/\ mounted
     /\ gets = <<>>
     /\ puts = <<>>
     /\ settled.kind = "get"
     /\ settled.pc = "ok"
     /\ nEdits = 0)
        => (tasks = settled.payload /\ settled.payload = backend)

\* C17: a successful load, whatever issued it, replaces the cache by its
\* payload; nothing of the previous cache is kept.
C17_LoadReplacesCache ==
    [][(GetSettles /\ settled'.pc = "ok") => tasks' = settled'.payload]_vars

\* A refresh that the backend served before it applied a move has replaced
\* the cache: the optimistic status of the move, still in flight, is gone.
C17_Witness ==
    /\ settled.kind = "get"
    /\ settled.origin = "refresh"
    /\ settled.pc = "ok"
    /\ tasks = settled.payload
    /\ \E p \in 1..Len(puts) :
          StatusIn(tasks, puts[p].taskId) \notin {puts[p].target, "absent"}

\* C18: the optimistic step of handleDragEnd writes the status of the dragged
\* task and nothing else: the other tasks, the other fields of the dragged
\* task, the number of tasks and their order are as before.
C18_OnlyDraggedStatus ==
    [][(DragStep /\ lastDrop'.moved)
          => /\ Len(tasks') = Len(tasks)
             /\ \A k \in 1..Len(tasks) :
                   IF tasks[k].taskId = lastDrop'.taskId
                   THEN tasks'[k] = [tasks[k] EXCEPT !.status = lastDrop'.over]
                   ELSE tasks'[k] = tasks[k]]_vars

\* A card was moved; the other card of the list is where the backend has it.
C18_Witness ==
    /\ lastDrop.moved
    /\ Len(tasks) = 2
    /\ StatusIn(tasks, lastDrop.taskId) = lastDrop.over
    /\ \E p \in 1..Len(puts) :
          /\ puts[p].pc = "sent"
          /\ puts[p].taskId = lastDrop.taskId
          /\ puts[p].target = lastDrop.over
    /\ \E id \in TaskIds \ {lastDrop.taskId} :
          StatusIn(tasks, id) = StatusIn(BackendInit, id)

\* ------------------------------------------------------------ C19 .. C20
\* C19: when a logged-out event is handled while no other invocation of the
\* callback is in progress, the session it leaves is user = null,
\* idToken = null, role = null and loading = false (phase unauthenticated).
C19_LoggedOutClears ==
    [][(/\ nEvents' > nEvents
        /\ nLogins' = nLogins
        /\ \A i \in Handlers : h[i].pc \notin InProgress)
          => (Cleared' /\ ~loading' /\ Phase' = "unauthenticated")]_vars

\* A session that was ready has handled the logged-out event that followed.
C19_Witness ==
    /\ nLogins = 1
    /\ nEvents = 2
    /\ h[1].pc = "done"
    /\ authUser = NULL
    /\ evq = <<>>
    /\ Cleared
    /\ ~loading

\* C20: no step of googleSignIn (the call, the popup's success, the popup's
\* failure) changes user, idToken, role or loading, and the promise it
\* returns never rejects: a failure of the popup is caught.
C20_SignInFrame ==
    [][signIn' # signIn
          => /\ UNCHANGED <<user, idToken, role, loading>>
             /\ signIn' # "rejected"]_vars

\* The popup failed for a signed-in, ready session, which is left as it was.
C20_Witness ==
    /\ signIn = "caught"
    /\ user # NULL
    /\ idToken # NULL
    /\ role # NULL
    /\ ~loading

\* ------------------------------------------------------------ C21 .. C30
\* Invocation i of the callback calls apiClient.get("/users/me") in this step.
RoleLookupStarts(i) == h[i].pc # "roleLookup" /\ h'[i].pc = "roleLookup"

NSent(reqs) == Cardinality({q \in DOMAIN reqs : reqs[q].pc = "sent"})

\* handleDragEnd's catch block calls fetchTasks() in this step.
ResyncIssued == Len(gets') > Len(gets) /\ gets'[Len(gets')].origin = "resync"

\* C22: nothing is retried.  An invocation of the callback makes its role
\* lookup once, from the continuation of getIdToken, which runs once.  The step
\* that handles a failed status update takes that update out of flight, sends
\* no other and issues one reload.  The step that ends a load (fetchTasks's
\* finally) takes that load out of flight and sends nothing.  Status updates
\* are sent by drops only, loads by the mount, a refresh or a failed update.
C22_NoRetry ==
    [][/\ \A i \in Handlers :
             /\ RoleLookupStarts(i) => h[i].pc = "getIdToken"
             /\ (h[i].pc # "getIdToken" /\ h'[i].pc = "getIdToken")
                   => h[i].pc = "notStarted"
       /\ ResyncIssued
             => /\ \E p \in DOMAIN puts : puts' = RemoveAt(puts, p)
                /\ Len(gets') = Len(gets) + 1
       /\ (Len(gets') < Len(gets) \/ (loadingTasks /\ ~loadingTasks'))
             => /\ \E g \in DOMAIN gets : gets' = RemoveAt(gets, g)
                /\ Len(puts') = Len(puts)
                /\ NSent(puts') = NSent(puts)
       /\ NSent(puts') > NSent(puts) => DragStep
       /\ Len(gets') > Len(gets)
             => (mounted' # mounted \/ nOps' > nOps \/ ResyncIssued)]_vars

\* The session came up, a status update failed, the reload it triggered failed
\* too, and nothing is in flight.
C22_Witness ==
    /\ h[1].pc = "done"
    /\ settled.kind = "get"
    /\ settled.origin = "resync"
    /\ settled.pc = "failed"
    /\ gets = <<>>
    /\ puts = <<>>

\* C23: once AuthProvider is unmounted the listener is deregistered: no
\* auth-state event invokes the callback any more, and the session state
\* does not change.
C23_Deregistered ==
    [][~providerMounted
          => /\ ~subscribed
             /\ UNCHANGED <<nEvents, nLogins, user, idToken, role, loading>>
             /\ \A i \in Handlers : h[i].pc = "notStarted" => h'[i].pc = "notStarted"]_vars

\* After the unmount a notification stays undelivered and an invocation of the
\* callback that was in progress has run to its end without changing the state.
C23_Witness ==
    /\ ~providerMounted
    /\ evq # <<>>
    /\ h[1].pc = "done"
    /\ loading
    /\ role = NULL

\* C25: whatever the outcomes of getIdToken, of the role lookup and of the
\* forced sign-out, a session that is loading eventually is not loading.
C25_LoadingEnds == loading ~> ~loading

\* C26: when no load and no status update is in flight, every status update
\* issued so far has succeeded and no other actor has changed anything, each
\* cached task has the status the backend holds for it.
C26_QuiescentConsistency ==
    (/\ mounted
     /\ tasks # <<>>
     /\ gets = <<>>
     /\ puts = <<>>
     /\ failedPuts = {}
     /\ nEdits = 0)
        => \A id \in TaskIds : StatusIn(tasks, id) = StatusIn(backend, id)

\* C27: handleDragEnd changes the cache or sends a status update only if the
\* drop is on a column and the dragged task is cached with another status;
\* a drop outside every column, or of a task that is not cached, changes
\* nothing and sends nothing.
C27_DragPreconditions ==
    [][DragStep
          => LET id == lastDrop'.taskId
                 over == lastDrop'.over
                 ok == /\ over \in Statuses
                       /\ HasTask(tasks, id)
                       /\ StatusIn(tasks, id) # over
             IN /\ (tasks' # tasks \/ puts' # puts) => ok
                /\ (over = NULL \/ ~HasTask(tasks, id))
                      => UNCHANGED <<tasks, puts, gets, backend, loadingTasks, error>>]_vars

\* The first load failed, so nothing is cached; a drop of a task on a column
\* has been handled and nothing was sent.
C27_Witness ==
    /\ lastDrop.over \in Statuses
    /\ lastDrop.prev = "absent"
    /\ ~lastDrop.moved
    /\ tasks = <<>>
    /\ puts = <<>>
    /\ gets = <<>>

\* C28: the home page shows AdminDashboard only to a present user with role
\* admin when loading is false, DeveloperDashboard only to a present user with
\* role developer when loading is false; with no user or while loading it
\* shows no dashboard, and it redirects to /login only when loading is false
\* and there is no user.
C28_RoleGatedHome ==
    /\ HomeView = "AdminDashboard" => (user # NULL /\ ~loading /\ role = "admin")
    /\ HomeView = "DeveloperDashboard" => (user # NULL /\ ~loading /\ role = "developer")
    /\ (user = NULL \/ loading) => HomeView \notin {"AdminDashboard", "DeveloperDashboard"}
    /\ RedirectToLogin => (~loading /\ user = NULL)

\* A role is left in the session without a user: the home page shows no
\* dashboard and redirects to /login.
C28_Witness ==
    /\ ~loading
    /\ user = NULL
    /\ role \in Roles
    /\ HomeView = "Loading application..."
    /\ RedirectToLogin

\* A response has arrived for the call of fetchFromApi.
Answered == api.pc = "settled" /\ api.status # 0

\* C24 as claimed: a 204 yields null; a non-2xx yields a thrown error whose
\* message is the body's detail when the field is present and 'API request
\* failed' otherwise; any other 2xx yields the parsed body; every request
\* sent carries Authorization: Bearer <token> and Content-Type: application/json.
C24_ClaimedMapping ==
    /\ Answered =>
          /\ api.status = NoContent => api.result = Returns(JsonNull)
          /\ ~Ok(api.status)
                => api.result = Throws(IF api.body.detail # NULL THEN api.body.detail
                                       ELSE "API request failed")
          /\ (Ok(api.status) /\ api.status # NoContent) => api.result = Returns(api.body)
    /\ api.sent => api.headers = [Authorization |-> "Bearer " \o Token(api.cu),
                                  ContentType |-> "application/json"]

\* C24 (amended): a 204 yields null; a non-2xx yields a thrown error whose
\* message is the body's detail when the body is a JSON object with a
\* non-empty detail, 'API request failed' when the body is not JSON or its
\* detail is absent or empty, and a TypeError when the body is the JSON value
\* null; any other 2xx yields the parsed body when the body is JSON and a
\* rejection otherwise; every request sent carries both headers, whatever
\* headers the caller passed.
C24_Mapping ==
    /\ Answered =>
          /\ api.status = NoContent => api.result = Returns(JsonNull)
          /\ ~Ok(api.status)
                => /\ api.result.outcome = "throws"
                   /\ api.body.kind = "null" => api.result.message = "TypeError"
                   /\ (api.body.kind # "null" /\ api.body.detail \notin {NULL, ""})
                         => api.result.message = api.body.detail
                   /\ (api.body.kind # "null" /\ api.body.detail \in {NULL, ""})
                         => api.result.message = "API request failed"
          /\ (Ok(api.status) /\ api.status # NoContent)
                => IF api.body.kind = "none" THEN api.result.outcome = "throws"
                   ELSE api.result = Returns(api.body)
    /\ api.sent => api.headers = [Authorization |-> "Bearer " \o Token(api.cu),
                                  ContentType |-> "application/json"]
    /\ (api.pc = "settled" /\ api.cu = NULL) => (~api.sent /\ api.result.outcome = "throws")

\* A 204 arrived with a body that is not JSON, for a request whose caller had
\* passed an Authorization header of its own: the call returned null.
C24_Witness ==
    /\ Answered
    /\ api.status = NoContent
    /\ api.body.kind = "none"
    /\ api.caller.Authorization # NULL
    /\ api.sent
    /\ api.result = Returns(JsonNull)

\* handleRoleChange is invoked in this step.
RoleChangeStep == umOps' = umOps + 1

\* C29: handleRoleChange called with the uid of the session's user issues no
\* backend call and leaves the list as it is; the role of a listed user
\* changes only in the step in which a role change of that user, to that
\* role, has succeeded, and it is never the own role; a role change that
\* fails leaves the list as it is.
C29_OwnRoleKept ==
    [][/\ (RoleChangeStep /\ umLast'.userId = user)
             => (umCalls' = umCalls /\ umUsers' = umUsers)
       /\ RoleChangeStep => umUsers' = umUsers
       /\ \A uid \in UserIds :
             (HasUser(umUsers, uid) /\ RoleIn(umUsers', uid) # RoleIn(umUsers, uid))
                => /\ uid # user
                   /\ \E c \in DOMAIN umCalls :
                         /\ umCalls' = RemoveAt(umCalls, c)
                         /\ umCalls[c].userId = uid
                         /\ umCalls[c].newRole = RoleIn(umUsers', uid)
                   /\ umSettled' = [userId |-> uid, newRole |-> RoleIn(umUsers', uid),
                                    pc |-> "ok"]
       /\ (Len(umCalls') < Len(umCalls) /\ umSettled'.pc = "failed")
             => umUsers' = umUsers]_vars

\* The admin asked for a role change of their own row and for one of another
\* user: the first sent nothing, the second failed, and the list is the one
\* that was loaded.
C29_Witness ==
    /\ umLast.userId = user
    /\ umLast.pc = "refused"
    /\ umSettled.pc = "failed"
    /\ umSettled.userId # user
    /\ umCalls = <<>>
    /\ umUsers = UsersData

\* handleApprove or handleDelete is invoked in this step.
ReviewHandlerStep == rvOps' = rvOps + 1 /\ rvGets' = rvGets

\* An approve or delete call settles in this step.
ReviewCallSettles == Len(rvCalls') < Len(rvCalls)

\* fetchData replaces the list by what the backend answered.
ReviewLoadStep ==
    \E g \in DOMAIN rvGets :
        /\ rvGets[g].pc = "served"
        /\ rvGets' = [rvGets EXCEPT ![g].pc = "developers"]
        /\ rvTasks' = rvGets[g].payload

\* C30: handleApprove and handleDelete are not optimistic.  Invoking them
\* leaves the list as it is; apart from a reload, a listed task becomes
\* approved, or leaves the list, only in the step in which an approve, or a
\* delete, of that task that the backend has carried out settles with
\* success, and every other task stays as it is; a call that fails, and a
\* delete that is not confirmed, leave the list as it is; and a task is
\* shown as approved, or missing from a loaded list, only if the backend
\* has carried out its approval, or its deletion.
C30_NotOptimistic ==
    [][/\ ReviewHandlerStep => rvTasks' = rvTasks
       /\ (ReviewHandlerStep /\ rvLast'.pc = "unconfirmed")
             => UNCHANGED <<rvTasks, rvCalls, rvBackend>>
       /\ (ReviewCallSettles /\ rvSettled'.pc = "failed") => rvTasks' = rvTasks
       /\ \A id \in TaskIds :
             /\ (HasTask(rvTasks, id) /\ ~Approved(rvTasks, id) /\ Approved(rvTasks', id))
                   => \/ ReviewLoadStep
                      \/ /\ ReviewCallSettles
                         /\ rvSettled' = [kind |-> "approve", taskId |-> id, pc |-> "ok"]
             /\ (HasTask(rvTasks, id) /\ ~HasTask(rvTasks', id))
                   => \/ ReviewLoadStep
                      \/ /\ ReviewCallSettles
                         /\ rvSettled' = [kind |-> "delete", taskId |-> id, pc |-> "ok"]
             /\ (ReviewCallSettles /\ rvSettled'.taskId # id)
                   => /\ HasTask(rvTasks', id) <=> HasTask(rvTasks, id)
                      /\ Approved(rvTasks', id) <=> Approved(rvTasks, id)
             /\ Approved(rvTasks', id) => <<"approve", id>> \in rvDone'
             /\ (rvTasks' # <<>> /\ ~HasTask(rvTasks', id)) => <<"delete", id>> \in rvDone']_vars

\* One task was approved, a delete was not confirmed and the delete of the
\* other task failed: the first is shown approved, the second is still listed
\* as it was.
C30_Witness ==
    /\ rvLast.pc = "unconfirmed"
    /\ Approved(rvTasks, "t1")
    /\ HasTask(rvTasks, "t2")
    /\ ~Approved(rvTasks, "t2")
    /\ rvSettled = [kind |-> "delete", taskId |-> "t2", pc |-> "failed"]
    /\ rvCalls = <<>>

====
